---- MODULE Spec2Model ----
(***************************************************************************)
(* WolfCRM backend (src/index.js): passwordless login codes, bearer        *)
(* sessions and owner-scoped contacts over one relational store.           *)
(*                                                                         *)
(* Every HTTP request occupies a slot of `req`.  A handler is cut at its   *)
(* `await pool.query(...)` points: one action is one statement executed by *)
(* the store together with the JavaScript that runs up to the next         *)
(* statement (or up to the response).  Statements of different requests    *)
(* interleave freely, as they do on the connection pool.                   *)
(*                                                                         *)
(* Time (`now`) is counted in units of ten minutes; row creation order     *)
(* (created_at) is a strictly increasing statement counter, identifiers    *)
(* drawn by gen_random_uuid()/randomUUID() are fresh numbers.              *)
(***************************************************************************)
EXTENDS Integers, Sequences, FiniteSets, TLC

\* ------------------------------------------------------------ bounds
MaxTime == 2
MaxCodes == 2
MaxSessions == 2
MaxContacts == 1

\* the lifetime of a login code, in units of ten minutes (10 * 60 * 1000 ms)
CodeTTL == 1

Reqs == {1, 2}
RawEmails == {" A@X.io ", "b@x.io", "nobody", " "}
Codes == {"100000", "999999"}
OwnerEmails == {"", " A@X.io "}
RawQueries == {"", " A ", "B"}
RawCodes == {" 100000", "999999", ""}

VARIABLES
    proc,          \* "running" | "exited"
    boot,          \* position of bootstrap()
    schema,        \* 0: empty database, 1: tables created, 2: contacts.user_id added
    ownerEmail,    \* bootstrap()'s ownerEmail, read from process.ownerEmail
    now,           \* the clock
    users,         \* table users: sequence of emails, the id of a row is its index
    magic_tokens,  \* table magic_tokens: sequence of rows, the id of a row is its index
    sessions,      \* table sessions: token -> [user_id] (created_at, last_used_at are never read)
    nextToken,     \* the next value randomUUID() yields for a session token
    contacts,      \* table contacts: id -> row
    nextContact,   \* the next value randomUUID() yields for a contact id
    req,           \* the requests in flight
    res,           \* the response sent last, with the request it answers
    history        \* what has happened so far (observation only)

vars == <<proc, boot, schema, ownerEmail, now, users, magic_tokens, sessions, nextToken,
          contacts, nextContact, req, res, history>>

\* ------------------------------------------------------------ helpers
\* String.prototype.trim() on the inputs the model sends
Trim(s) ==
    CASE s = " A@X.io " -> "A@X.io"
      [] s = " A " -> "A"
      [] s = " 100000" -> "100000"
      [] s = " " -> ""
      [] OTHER -> s

\* String.prototype.toLowerCase()
ToLowerCase(s) == IF s = "A@X.io" THEN "a@x.io" ELSE s

\* mutant: every string passes for one with an "@"
IncludesAtAny(s) == TRUE

\* String.prototype.includes("@")
IncludesAt(s) == s \in {"a@x.io", "b@x.io", "A@X.io", " A@X.io "}

\* used_at IS NULL
Null == -1

Max(S) == CHOOSE x \in S : \A y \in S : y <= x

\* a request slot nobody uses.  kind, pc and the handler's locals (email, code, expires,
\* tid, user, token, id, body, q); the response (status, error, delivery, rowCount, rows);
\* and what is observed of the request: solo (no other request was in flight with it);
\* fresh, late, stale (the code presented was issued and is unredeemed and unexpired,
\* was redeemed, is past its expiry; late also: the bearer token was logged out);
\* marked, minted (the request set used_at, inserted a session); channel (where the code
\* went), fetch (what became of the call to the mail service); fault (the store
\* rejected a statement of the request)
Idle ==
    [kind |-> "none", pc |-> "idle", email |-> "", code |-> "", expires |-> 0,
     tid |-> 0, user |-> 0, token |-> 0, id |-> 0, body |-> 0, q |-> "",
     status |-> 0, error |-> "", delivery |-> "", rowCount |-> 0, rows |-> <<>>,
     solo |-> TRUE, fresh |-> FALSE, late |-> FALSE, stale |-> FALSE,
     marked |-> FALSE, minted |-> 0,
     channel |-> "", fetch |-> "", fault |-> FALSE]

InFlight(r) == req[r].pc # "idle"

\* a new request takes the first slot no request occupies
Free(r) == ~InFlight(r) /\ \A q \in Reqs : q < r => InFlight(q)

\* the request has been answered ("done") or will never be ("hung")
Finished(rec) == rec.pc \in {"done", "hung"}

\* a request arrives in slot r and runs up to rec; the requests in flight overlap with it
Arrive(r, rec) ==
    /\ req' = [q \in Reqs |->
           IF q = r THEN (IF Finished(rec) THEN Idle ELSE rec)
           ELSE IF InFlight(q) THEN [req[q] EXCEPT !.solo = FALSE]
           ELSE req[q]]
    /\ res' = IF Finished(rec) THEN rec ELSE res

\* the request in slot r runs up to rec
Continue(r, rec) ==
    /\ req' = [req EXCEPT ![r] = IF Finished(rec) THEN Idle ELSE rec]
    /\ res' = IF Finished(rec) THEN rec ELSE res

Fresh(r, kind) ==
    [Idle EXCEPT !.kind = kind, !.solo = \A q \in Reqs \ {r} : ~InFlight(q)]

\* res.status(s).json({error: e}); the handler's locals end with it
Respond(rec, s, e) ==
    [rec EXCEPT !.pc = "done", !.status = s, !.error = e,
                !.email = "", !.code = "", !.expires = 0, !.tid = 0, !.user = 0, !.token = 0,
                !.id = 0, !.body = 0, !.q = ""]

\* mutant: a plain INSERT, without ON CONFLICT
UpsertUserAppend(tbl, email) == Append(tbl, email)

\* users: INSERT ... ON CONFLICT(email) DO UPDATE SET email = EXCLUDED.email
UpsertUser(tbl, email) ==
    IF \E i \in 1..Len(tbl) : tbl[i] = email THEN tbl ELSE Append(tbl, email)

\* mutant: SELECT * FROM users, whatever the email
UsersOfAnyEmail(email) == 1..Len(users)

\* SELECT * FROM users WHERE email = $1
UsersByEmail(email) == {i \in 1..Len(users) : users[i] = email}

\* mutant: ORDER BY created_at ASC, the oldest matching row
OldestToken(email, code) ==
    LET m == {i \in 1..Len(magic_tokens) :
                 magic_tokens[i].email = email /\ magic_tokens[i].code = code}
    IN IF m = {} THEN 0
       ELSE CHOOSE i \in m : \A j \in m : magic_tokens[i].created_at <= magic_tokens[j].created_at

\* SELECT * FROM magic_tokens WHERE email = $1 AND code = $2
\*   ORDER BY created_at DESC LIMIT 1   (0: no row)
LatestToken(email, code) ==
    LET m == {i \in 1..Len(magic_tokens) :
                 magic_tokens[i].email = email /\ magic_tokens[i].code = code}
    IN IF m = {} THEN 0
       ELSE CHOOSE i \in m : \A j \in m : magic_tokens[j].created_at <= magic_tokens[i].created_at

\* mutant: a code is still taken for one more period after expires_at
ExpiredGrace(expires_at, t) == expires_at + CodeTTL < t

\* new Date(t.expires_at).getTime() < Date.now()
Expired(expires_at, t) == expires_at < t

\* ------------------------------------------------------------ initial state
Init ==
    /\ proc = "running"
    /\ boot = "tables"
    /\ schema = 0
    /\ ownerEmail = ""
    /\ now = 0
    /\ users = <<>>
    /\ magic_tokens = <<>>
    /\ sessions = <<>>
    /\ nextToken = 1
    /\ contacts = <<>>
    /\ nextContact = 1
    /\ req = [r \in Reqs |-> Idle]
    /\ res = Idle
    /\ history = [early |-> FALSE, issued |-> {}, loggedOut |-> {},
                  mints |-> <<>>, owner |-> <<>>]

\* bootstrap() has completed without OWNER_EMAIL, and nothing else has happened
InitReady ==
    /\ proc = "running"
    /\ boot = "ready"
    /\ schema = 2
    /\ ownerEmail = ""
    /\ users = <<>>
    /\ now = 0
    /\ magic_tokens = <<>>
    /\ sessions = <<>>
    /\ nextToken = 1
    /\ contacts = <<>>
    /\ nextContact = 1
    /\ req = [r \in Reqs |-> Idle]
    /\ res = Idle
    /\ history = [early |-> FALSE, issued |-> {}, loggedOut |-> {},
                  mints |-> <<>>, owner |-> <<>>]

\* two users have each requested a code and verified it, one request after the other,
\* within the first ten minutes after bootstrap() completed
LoggedIn ==
    /\ proc = "running"
    /\ boot = "ready"
    /\ schema = 2
    /\ ownerEmail = ""
    /\ now = 0
    /\ users = <<"a@x.io", "b@x.io">>
    /\ magic_tokens =
          << [id |-> 1, email |-> "a@x.io", code |-> "100000", expires_at |-> CodeTTL,
              used_at |-> 0, created_at |-> 1],
             [id |-> 2, email |-> "b@x.io", code |-> "999999", expires_at |-> CodeTTL,
              used_at |-> 0, created_at |-> 2] >>
    /\ sessions = (1 :> [user_id |-> 1]) @@ (2 :> [user_id |-> 2])
    /\ nextToken = 3
    /\ contacts = <<>>
    /\ nextContact = 1
    /\ req = [r \in Reqs |-> Idle]
    /\ res = [Idle EXCEPT !.kind = "verify", !.pc = "done", !.status = 200, !.token = 2,
                          !.user = 2, !.email = "b@x.io",
                          !.minted = 2, !.marked = TRUE, !.fresh = TRUE]
    /\ history = [early |-> FALSE, loggedOut |-> {}, mints |-> <<1, 1>>,
                  owner |-> <<"a@x.io", "b@x.io">>,
                  issued |-> {[email |-> "a@x.io", code |-> "100000", tid |-> 1,
                               expires |-> CodeTTL, redeemed |-> TRUE],
                              [email |-> "b@x.io", code |-> "999999", tid |-> 2,
                               expires |-> CodeTTL, redeemed |-> TRUE]}]

\* ------------------------------------------------------------ the clock
Tick ==
    /\ now < MaxTime
    /\ now' = now + 1
    /\ UNCHANGED <<proc, boot, schema, ownerEmail, users, magic_tokens, sessions, nextToken, contacts, nextContact, req, res, history>>

\* ------------------------------------------------------------ bootstrap()
\* a failing statement rejects bootstrap(): .catch logs and calls process.exit(1)
BootFail ==
    /\ proc = "running"
    /\ boot \notin {"ready", "failed"}
    /\ boot' = "failed"
    /\ proc' = "exited"
    /\ UNCHANGED <<schema, ownerEmail, now, users, magic_tokens, sessions, nextToken, contacts, nextContact, req, res, history>>

\* CREATE EXTENSION / CREATE TABLE IF NOT EXISTS ... / trigger
BootTables ==
    /\ proc = "running"
    /\ boot = "tables"
    /\ schema' = 1
    /\ boot' = "column"
    /\ UNCHANGED <<proc, ownerEmail, now, users, magic_tokens, sessions, nextToken, contacts, nextContact, req, res, history>>

\* ALTER TABLE contacts ADD COLUMN IF NOT EXISTS user_id UUID
BootColumn ==
    /\ proc = "running"
    /\ boot = "column"
    /\ schema' = 2
    /\ \E e \in OwnerEmails :
          /\ ownerEmail' = ToLowerCase(Trim(e))
          /\ boot' = IF ownerEmail' # "" THEN "owner" ELSE "ready"
    /\ UNCHANGED <<proc, now, users, magic_tokens, sessions, nextToken, contacts, nextContact, req, res, history>>

\* INSERT INTO users(email) VALUES(ownerEmail) ON CONFLICT ... RETURNING id
BootOwner ==
    /\ proc = "running"
    /\ boot = "owner"
    /\ users' = UpsertUser(users, ownerEmail)
    /\ boot' = "backfill"
    /\ UNCHANGED <<proc, schema, ownerEmail, now, magic_tokens, sessions, nextToken, contacts, nextContact, req, res, history>>

\* UPDATE contacts SET user_id = ownerId WHERE user_id IS NULL   (0: NULL), then
\* ALTER COLUMN user_id SET NOT NULL; contacts_user_fk; contacts_user_updated_idx
BootBackfill ==
    /\ proc = "running"
    /\ boot = "backfill"
    /\ contacts' = [c \in DOMAIN contacts |->
           IF contacts[c].user_id = 0
           THEN [contacts[c] EXCEPT !.user_id = Max(UsersByEmail(ownerEmail)), !.updated_at = now]
           ELSE contacts[c]]
    /\ boot' = "ready"
    /\ UNCHANGED <<proc, schema, ownerEmail, now, users, magic_tokens, sessions, nextToken, nextContact, req, res, history>>

\* ------------------------------------------------------------ POST /auth/request
PendingCodes == Cardinality({q \in Reqs : req[q].kind = "request" /\ req[q].pc = "insert_code"})

RequestArrive(r, raw) ==
    /\ proc = "running"
    /\ Free(r)
    /\ LET emailRaw == ToLowerCase(Trim(raw))
           me == [Fresh(r, "request") EXCEPT !.email = emailRaw]
       IN IF emailRaw = "" \/ ~IncludesAt(emailRaw)
          THEN /\ Arrive(r, Respond(me, 400, "invalid_email"))
               /\ UNCHANGED users
          ELSE IF schema < 1
          THEN /\ Arrive(r, Respond(me, 500, "request_failed"))
               /\ UNCHANGED users
          ELSE /\ Len(magic_tokens) + PendingCodes < MaxCodes
               /\ users' = UpsertUser(users, emailRaw)
               /\ \E code \in Codes :
                     Arrive(r, [me EXCEPT !.pc = "insert_code", !.code = code,
                                                 !.expires = now + CodeTTL])
    /\ history' = [history EXCEPT !.early = @ \/ boot # "ready"]
    /\ UNCHANGED <<proc, boot, schema, ownerEmail, now, magic_tokens, sessions, nextToken, contacts, nextContact>>

\* INSERT INTO magic_tokens(email, code, expires_at), then sendLoginCode up to fetch
RequestInsert(r, key) ==
    /\ proc = "running"
    /\ req[r].kind = "request" /\ req[r].pc = "insert_code"
    /\ magic_tokens' = Append(magic_tokens,
           [id |-> Len(magic_tokens) + 1, email |-> req[r].email, code |-> req[r].code,
            expires_at |-> req[r].expires, used_at |-> Null,
            created_at |-> Len(magic_tokens) + 1])
    /\ Continue(r, IF ~key
                    THEN [Respond(req[r], 200, "") EXCEPT !.delivery = "console", !.channel = "console",
                                                          !.fetch = "no_key"]
                    ELSE [req[r] EXCEPT !.pc = "fetch"])
    /\ history' = [history EXCEPT
           !.issued = {i \in @ : i.email # req[r].email \/ i.code # req[r].code}
                      \cup {[email |-> req[r].email, code |-> req[r].code,
                              tid |-> Len(magic_tokens) + 1,
                              expires |-> req[r].expires, redeemed |-> FALSE]},
           !.mints = Append(@, 0)]
    /\ UNCHANGED <<proc, boot, schema, ownerEmail, now, users, sessions, nextToken, contacts, nextContact>>

\* the outcome of fetch("https://api.resend.com/emails"): r.ok, !r.ok, or a rejection
RequestFetch(r, outcome) ==
    /\ proc = "running"
    /\ req[r].kind = "request" /\ req[r].pc = "fetch"
    /\ Continue(r,
           CASE outcome = "ok" ->
                  [Respond(req[r], 200, "") EXCEPT !.delivery = "email", !.channel = "email",
                                                   !.fetch = outcome]
             [] outcome = "not_ok" ->
                  [Respond(req[r], 200, "") EXCEPT !.delivery = "console", !.channel = "console",
                                                   !.fetch = outcome]
             [] OTHER ->
                  [Respond(req[r], 500, "request_failed") EXCEPT !.fetch = outcome])
    /\ UNCHANGED <<proc, boot, schema, ownerEmail, now, users, magic_tokens, sessions, nextToken, contacts, nextContact, history>>

\* ------------------------------------------------------------ POST /auth/verify
PendingMints ==
    Cardinality({q \in Reqs : req[q].kind = "verify" /\ req[q].pc \in {"consume", "find_user"}})

\* mutant: the expiry is tested before used_at
VerifyDecisionExpiryFirst(tid, t) ==
    IF tid = 0 THEN "invalid_code"
    ELSE IF Expired(magic_tokens[tid].expires_at, t) THEN "code_expired"
    ELSE IF magic_tokens[tid].used_at # Null THEN "code_used"
    ELSE "accept"

\* the decision taken on the row the SELECT returned (tid = 0: no row)
VerifyDecision(tid, t) ==
    IF tid = 0 THEN "invalid_code"
    ELSE IF magic_tokens[tid].used_at # Null THEN "code_used"
    ELSE IF Expired(magic_tokens[tid].expires_at, t) THEN "code_expired"
    ELSE "accept"

\* parameters, SELECT ... ORDER BY created_at DESC LIMIT 1, and the three checks
VerifyArrive(r, rawEmail, rawCode) ==
    /\ proc = "running"
    /\ Free(r)
    /\ LET email == ToLowerCase(Trim(rawEmail))
           code == Trim(rawCode)
           me == [Fresh(r, "verify") EXCEPT !.email = email, !.code = code]
           tid == LatestToken(email, code)
           d == VerifyDecision(tid, now)
           seen == [me EXCEPT !.tid = tid,
                               !.fresh = \E i \in history.issued :
                                            /\ i.email = email /\ i.code = code
                                            /\ ~i.redeemed /\ now <= i.expires,
                               !.late = \E i \in history.issued :
                                            i.email = email /\ i.code = code /\ i.redeemed,
                               !.stale = \E i \in history.issued :
                                            i.email = email /\ i.code = code /\ i.expires < now]
       IN IF email = "" \/ code = ""
          THEN Arrive(r, Respond(me, 400, "missing_params"))
          ELSE IF schema < 1
          THEN Arrive(r, Respond(me, 500, "verify_failed"))
          ELSE IF d # "accept"
          THEN Arrive(r, Respond(seen, 400, d))
          ELSE /\ (nextToken - 1) + PendingMints < MaxSessions
               /\ Arrive(r, [seen EXCEPT !.pc = "consume"])
    /\ history' = [history EXCEPT !.early = @ \/ boot # "ready"]
    /\ UNCHANGED <<proc, boot, schema, ownerEmail, now, users, magic_tokens, sessions, nextToken, contacts, nextContact>>

\* mutant: the UPDATE that sets used_at is left out
VerifyConsumeNoMark(r) ==
    /\ proc = "running"
    /\ req[r].kind = "verify" /\ req[r].pc = "consume"
    /\ Continue(r, [req[r] EXCEPT !.pc = "find_user"])
    /\ UNCHANGED <<proc, boot, schema, ownerEmail, now, users, magic_tokens, sessions, nextToken, contacts, nextContact, history>>

\* UPDATE magic_tokens SET used_at = now() WHERE id = t.id
VerifyConsume(r) ==
    /\ proc = "running"
    /\ req[r].kind = "verify" /\ req[r].pc = "consume"
    /\ magic_tokens' = [magic_tokens EXCEPT ![req[r].tid].used_at = now]
    /\ Continue(r, [req[r] EXCEPT !.pc = "find_user", !.marked = TRUE])
    /\ UNCHANGED <<proc, boot, schema, ownerEmail, now, users, sessions, nextToken, contacts, nextContact, history>>

\* SELECT * FROM users WHERE email = $1, then randomUUID()
VerifyFindUser(r) ==
    /\ proc = "running"
    /\ req[r].kind = "verify" /\ req[r].pc = "find_user"
    /\ IF UsersByEmail(req[r].email) = {}
       THEN /\ Continue(r, Respond(req[r], 400, "user_missing"))
            /\ UNCHANGED nextToken
       ELSE /\ Continue(r, [req[r] EXCEPT !.pc = "mint",
                                          !.user = Max(UsersByEmail(req[r].email)),
                                          !.token = nextToken])
            /\ nextToken' = nextToken + 1
    /\ UNCHANGED <<proc, boot, schema, ownerEmail, now, users, magic_tokens, sessions, contacts, nextContact, history>>

\* INSERT INTO sessions(token, user_id), then res.json({token, user})
VerifyMint(r) ==
    /\ proc = "running"
    /\ req[r].kind = "verify" /\ req[r].pc = "mint"
    /\ sessions' = (req[r].token :> [user_id |-> req[r].user]) @@ sessions
    /\ Continue(r, [Respond(req[r], 200, "") EXCEPT
                        !.token = req[r].token, !.user = req[r].user, !.email = req[r].email,
                        !.minted = req[r].token])
    /\ history' = [history EXCEPT
           !.issued = {IF i.tid = req[r].tid THEN [i EXCEPT !.redeemed = TRUE] ELSE i : i \in @},
           !.mints[req[r].tid] = @ + 1,
           !.owner = (req[r].token :> req[r].email) @@ @]
    /\ UNCHANGED <<proc, boot, schema, ownerEmail, now, users, magic_tokens, nextToken, contacts, nextContact>>

\* ------------------------------------------------------------ authRequired
\* what becomes of a rejection no try/catch handles: Express 5 answers 500, Express 4
\* leaves the request without an answer and Node (15 and later) ends the process
Unhandled == {"error_500", "no_response", "process_exit"}

\* bearer(req) yields tok (0: no Authorization header of the form "Bearer ..."), then
\* UPDATE sessions SET last_used_at = now() WHERE token = $1 RETURNING user_id;
\* entered is the request once next() has run the route's handler up to its statement
AuthRequired(r, me, tok, entered) ==
    /\ proc = "running"
    /\ Free(r)
    /\ history' = [history EXCEPT !.early = @ \/ boot # "ready"]
    /\ LET mine == [me EXCEPT !.token = tok, !.late = tok \in history.loggedOut]
       IN IF tok = 0
          THEN /\ Arrive(r, Respond(mine, 401, "unauthorized"))
               /\ UNCHANGED <<sessions, proc>>
          ELSE IF schema < 1
          THEN /\ \E o \in Unhandled :
                    /\ Arrive(r, IF o = "error_500" THEN Respond(mine, 500, "")
                                        ELSE [mine EXCEPT !.pc = "hung"])
                    /\ proc' = IF o = "process_exit" THEN "exited" ELSE proc
               /\ UNCHANGED sessions
          ELSE IF tok \notin DOMAIN sessions
          THEN /\ Arrive(r, Respond(mine, 401, "unauthorized"))
               /\ UNCHANGED <<sessions, proc>>
          ELSE /\ UNCHANGED sessions
               /\ Arrive(r, IF Finished(entered)
                            THEN [entered EXCEPT !.late = mine.late]
                            ELSE [entered EXCEPT !.token = tok, !.late = mine.late,
                                                 !.user = sessions[tok].user_id])
               /\ UNCHANGED proc

\* the tokens a client may present: none, issued ones, and one never issued
Bearers == 0..(MaxSessions + 1)

\* ------------------------------------------------------------ POST /auth/logout
LogoutEnter(m) == [m EXCEPT !.pc = "delete_session"]

LogoutArrive(r, tok) ==
    /\ AuthRequired(r, Fresh(r, "logout"), tok, LogoutEnter(Fresh(r, "logout")))
    /\ UNCHANGED <<boot, schema, ownerEmail, now, users, magic_tokens, nextToken, contacts, nextContact>>

\* mutant: logout answers ok and leaves the session row in place
LogoutDeleteKeeps(r) ==
    /\ proc = "running"
    /\ req[r].kind = "logout" /\ req[r].pc = "delete_session"
    /\ Continue(r, [Respond(req[r], 200, "") EXCEPT !.rowCount = 0])
    /\ history' = [history EXCEPT !.loggedOut = @ \cup {req[r].token}]
    /\ UNCHANGED <<proc, boot, schema, ownerEmail, now, users, magic_tokens, sessions, nextToken, contacts, nextContact>>

\* mutant: logout answers 404 when its DELETE removes no row
LogoutDeleteStrict(r) ==
    /\ proc = "running"
    /\ req[r].kind = "logout" /\ req[r].pc = "delete_session"
    /\ sessions' = [t \in DOMAIN sessions \ {req[r].token} |-> sessions[t]]
    /\ Continue(r, IF req[r].token \in DOMAIN sessions
                   THEN [Respond(req[r], 200, "") EXCEPT !.rowCount = 1]
                   ELSE Respond(req[r], 404, "not_found"))
    /\ history' = [history EXCEPT !.loggedOut = @ \cup {req[r].token}]
    /\ UNCHANGED <<proc, boot, schema, ownerEmail, now, users, magic_tokens, nextToken, contacts, nextContact>>

\* mutant: DELETE FROM sessions WHERE user_id = req.userId, logging the user out everywhere
LogoutDeleteAll(r) ==
    /\ proc = "running"
    /\ req[r].kind = "logout" /\ req[r].pc = "delete_session"
    /\ sessions' = [t \in {u \in DOMAIN sessions : sessions[u].user_id # req[r].user} |-> sessions[t]]
    /\ Continue(r, [Respond(req[r], 200, "") EXCEPT
                        !.rowCount = IF req[r].token \in DOMAIN sessions THEN 1 ELSE 0])
    /\ history' = [history EXCEPT !.loggedOut = @ \cup {req[r].token}]
    /\ UNCHANGED <<proc, boot, schema, ownerEmail, now, users, magic_tokens, nextToken, contacts, nextContact>>

\* DELETE FROM sessions WHERE token = req.sessionToken, then res.json({ok: true})
LogoutDelete(r) ==
    /\ proc = "running"
    /\ req[r].kind = "logout" /\ req[r].pc = "delete_session"
    /\ sessions' = [t \in DOMAIN sessions \ {req[r].token} |-> sessions[t]]
    /\ Continue(r, [Respond(req[r], 200, "") EXCEPT
                        !.rowCount = IF req[r].token \in DOMAIN sessions THEN 1 ELSE 0])
    /\ history' = [history EXCEPT !.loggedOut = @ \cup {req[r].token}]
    /\ UNCHANGED <<proc, boot, schema, ownerEmail, now, users, magic_tokens, nextToken, contacts, nextContact>>

\* ------------------------------------------------------------ GET /me
MeEnter(m) == [m EXCEPT !.pc = "select_user"]

MeArrive(r, tok) ==
    /\ AuthRequired(r, Fresh(r, "me"), tok, MeEnter(Fresh(r, "me")))
    /\ UNCHANGED <<boot, schema, ownerEmail, now, users, magic_tokens, nextToken, contacts, nextContact>>

\* SELECT id, email, created_at FROM users WHERE id = req.userId, then res.json({user})
MeSelect(r) ==
    /\ proc = "running"
    /\ req[r].kind = "me" /\ req[r].pc = "select_user"
    /\ Continue(r, [Respond(req[r], 200, "") EXCEPT
                        !.user = IF req[r].user \in 1..Len(users) THEN req[r].user ELSE 0,
                        !.email = IF req[r].user \in 1..Len(users) THEN users[req[r].user] ELSE ""])
    /\ UNCHANGED <<proc, boot, schema, ownerEmail, now, users, magic_tokens, sessions, nextToken, contacts, nextContact, history>>

\* ------------------------------------------------------------ JavaScript values
\* the values a JSON body holds: undefined (member absent), null, strings, numbers
Undefined == [k |-> "undefined", s |-> "", n |-> 0]
JsNull == [k |-> "null", s |-> "", n |-> 0]
NaN == [k |-> "NaN", s |-> "", n |-> 0]
Str(x) == [k |-> "string", s |-> x, n |-> 0]
Num(i) == [k |-> "number", s |-> "", n |-> i]

\* !v is false
Truthy(v) == v.k \notin {"undefined", "null", "NaN"} /\ v # Str("") /\ v # Num(0)

\* v || ""
OrEmpty(v) == IF Truthy(v) THEN v ELSE Str("")

\* v ?? null
OrNull(v) == IF v.k \in {"undefined", "null"} THEN JsNull ELSE v

\* Number(v), on the strings the model sends
Number(v) ==
    CASE v.k = "number" -> v
      [] v.k = "null" -> Num(0)
      [] v.k = "string" -> (CASE v.s = "" -> Num(0) [] v.s = "7" -> Num(7) [] v.s = "5" -> Num(5)
                              [] OTHER -> NaN)
      [] OTHER -> NaN

\* Number.isFinite(Number(v)) ? Number(v) : null
FiniteOrNull(v) == IF Number(v).k = "number" THEN Number(v) ELSE JsNull

\* String(n), on the numbers the model sends
NumberToString(i) == CASE i = 0 -> "0" [] i = 1 -> "1" [] i = 5 -> "5" [] i = 7 -> "7"

\* ------------------------------------------------------------ table contacts
TextColumns == {"name", "phone", "email", "address", "tags", "job_type", "u1", "u2", "u3", "u4", "u5"}
NumberColumns == {"value_cents", "lat", "lng"}
Columns == TextColumns \cup NumberColumns

\* the columns GET /api/contacts?q= searches
SearchColumns == {"name", "phone", "email", "address", "job_type", "u1", "u2", "u3", "u4", "u5"}

\* a query parameter as the store takes it: undefined and null are NULL, a number bound
\* to a TEXT column is its text, text bound to a number column is the number it spells
Param(c, v) ==
    IF v.k \in {"undefined", "null"} THEN JsNull
    ELSE IF c \in TextColumns /\ v.k = "number" THEN Str(NumberToString(v.n))
    ELSE IF c \in NumberColumns /\ v.k = "string" THEN Number(v)
    ELSE v

\* the store rejects the statement (invalid input syntax): text that spells no number,
\* the empty string included, bound to INTEGER or DOUBLE PRECISION
Rejects(c, v) == c \in NumberColumns /\ v.k = "string" /\ (v.s = "" \/ Number(v).k = "NaN")

\* COALESCE(p, col)
Coalesce(p, col) == IF p.k = "null" THEN col ELSE p

\* a JSON body with the members of m
Body(m) == [c \in Columns |-> IF c \in DOMAIN m THEN m[c] ELSE Undefined]

\* the bodies clients send
Bodies ==
    << Body(<<>>),
       Body("name" :> Str("Ann") @@ "phone" :> Str("555") @@ "value_cents" :> Str("7") @@ "lat" :> Num(1)),
       Body("name" :> Str("") @@ "phone" :> JsNull @@ "value_cents" :> JsNull @@ "u1" :> Num(5)),
       Body("value_cents" :> Str("x") @@ "lat" :> JsNull),
       Body("name" :> Str("Bob") @@ "lng" :> Str("x")) >>

\* const {name, ...} = req.body: the parameters of the INSERT
CreateParams(b) ==
    [c \in Columns |->
        IF c \in TextColumns THEN OrEmpty(b[c])
        ELSE IF c = "value_cents" THEN FiniteOrNull(b[c])
        ELSE OrNull(b[c])]

\* the parameters of the UPDATE
UpdateParams(b) ==
    [c \in Columns |->
        IF c \in TextColumns THEN b[c]
        ELSE IF c = "value_cents" THEN FiniteOrNull(b[c])
        ELSE OrNull(b[c])]

\* UPDATE contacts SET c = COALESCE($n, c), ... ; the trigger sets updated_at = now()
Merged(row, params, t) ==
    [row EXCEPT !.col = [c \in Columns |-> Coalesce(Param(c, params[c]), row.col[c])],
                !.updated_at = t]

\* WHERE id = $1 AND user_id = $2
\* mutant: the WHERE clause matches on id alone
OwnedByAnyone(id, user) == id \in DOMAIN contacts

Owned(id, user) == id \in DOMAIN contacts /\ contacts[id].user_id = user

\* text ILIKE '%' || q || '%', on the strings the model holds
ILike(text, q) ==
    \/ q = ""
    \/ q = "A" /\ text \in {"Ann"}
    \/ q = "B" /\ text \in {"Bob"}

\* name ILIKE $2 OR COALESCE(phone,'') ILIKE $2 OR ...
Matches(row, q) ==
    \E c \in SearchColumns : ILike(IF row.col[c].k = "string" THEN row.col[c].s ELSE "", q)

\* the number of rows a list without query returns at most
ListLimit == 200

\* the orders in which the rows S may come when they tie
RECURSIVE Perms(_)
Perms(S) ==
    IF S = {} THEN {<<>>}
    ELSE UNION {{<<x>> \o p : p \in Perms(S \ {x})} : x \in S}

Min(S) == CHOOSE x \in S : \A y \in S : x <= y

\* the orders of the rows ids of tbl, all updated from lo to hi, latest first; the rows
\* updated after the middle of that span come before the others
RECURSIVE OrderedIn(_, _, _, _)
OrderedIn(tbl, ids, lo, hi) ==
    IF ids = {} THEN {<<>>}
    ELSE IF lo = hi THEN Perms(ids)
    ELSE LET mid == (lo + hi) \div 2
             late == {c \in ids : tbl[c].updated_at > mid}
         IN {p \o o : p \in OrderedIn(tbl, late, mid + 1, hi),
                       o \in OrderedIn(tbl, ids \ late, lo, mid)}

\* the orders ORDER BY updated_at DESC may give the rows ids of tbl
Ordered(tbl, ids) ==
    IF ids = {} THEN {<<>>}
    ELSE OrderedIn(tbl, ids, Min({tbl[c].updated_at : c \in ids}),
                             Max({tbl[c].updated_at : c \in ids}))

\* mutant: the list without query has no LIMIT
ListRowsUnlimited(tbl, user, q) ==
    LET mine == {c \in DOMAIN tbl : tbl[c].user_id = user}
        hits == IF q # "" THEN {c \in mine : Matches(tbl[c], q)} ELSE mine
    IN Ordered(tbl, hits)

\* mutant: the list does not filter by user_id
ListRowsOfAll(tbl, user, q) ==
    LET hits == IF q # "" THEN {c \in DOMAIN tbl : Matches(tbl[c], q)} ELSE DOMAIN tbl
    IN {IF q # "" \/ Len(o) <= ListLimit THEN o ELSE SubSeq(o, 1, ListLimit) :
            o \in Ordered(tbl, hits)}

\* SELECT * FROM contacts WHERE user_id = $1 [AND (... ILIKE $2 ...)]
\*   ORDER BY updated_at DESC [LIMIT 200]: the results the store may give
ListRows(tbl, user, q) ==
    LET mine == {c \in DOMAIN tbl : tbl[c].user_id = user}
        hits == IF q # "" THEN {c \in mine : Matches(tbl[c], q)} ELSE mine
    IN {IF q # "" \/ Len(o) <= ListLimit THEN o ELSE SubSeq(o, 1, ListLimit) :
            o \in Ordered(tbl, hits)}

\* ------------------------------------------------------------ GET /api/contacts
ListEnter(m) == [m EXCEPT !.pc = "select_contacts"]

ListArrive(r, tok, rawq) ==
    /\ AuthRequired(r, [Fresh(r, "list") EXCEPT !.q = Trim(rawq)], tok, ListEnter([Fresh(r, "list") EXCEPT !.q = Trim(rawq)]))
    /\ UNCHANGED <<boot, schema, ownerEmail, now, users, magic_tokens, nextToken, contacts, nextContact>>

ListSelect(r) ==
    /\ proc = "running"
    /\ req[r].kind = "list" /\ req[r].pc = "select_contacts"
    /\ IF schema < 2
       THEN Continue(r, Respond(req[r], 500, "failed_list"))
       ELSE \E rows \in ListRows(contacts, req[r].user, req[r].q) :
               Continue(r, [Respond(req[r], 200, "") EXCEPT !.rows = rows])
    /\ UNCHANGED <<proc, boot, schema, ownerEmail, now, users, magic_tokens, sessions, nextToken, contacts, nextContact, history>>

\* the row POST /api/contacts stores for user from the body b at time t
Row(user, b, t) ==
    [user_id |-> user, updated_at |-> t,
     col |-> [c \in Columns |-> Param(c, CreateParams(b)[c])]]

Ann == Body("name" :> Str("Ann") @@ "phone" :> Str("555"))
Bob == Body("name" :> Str("Bob"))

\* contacts tables as earlier requests left them: none; a few of both users, two of
\* them updated in the same period; and one more than the list's LIMIT for user 1,
\* updated at different times, besides one of user 2
Few ==
    (1 :> Row(1, Ann, 0 - 1)) @@ (2 :> Row(2, Bob, 0)) @@ (3 :> Row(1, Bob, 0)) @@
    (4 :> Row(1, Ann, 0))

Many ==
    [c \in 1..(ListLimit + 2) |->
        IF c = ListLimit + 2 THEN Row(2, Ann, 0)
        ELSE Row(1, IF c % 2 = 0 THEN Ann ELSE Bob, 0 - c)]

Stores == {<<>>, Few, Many}

\* both users are logged in (as in LoggedIn) and have stored contacts
Stocked ==
    /\ proc = "running"
    /\ boot = "ready"
    /\ schema = 2
    /\ ownerEmail = ""
    /\ now = 0
    /\ users = <<"a@x.io", "b@x.io">>
    /\ magic_tokens =
          << [id |-> 1, email |-> "a@x.io", code |-> "100000", expires_at |-> CodeTTL,
              used_at |-> 0, created_at |-> 1],
             [id |-> 2, email |-> "b@x.io", code |-> "999999", expires_at |-> CodeTTL,
              used_at |-> 0, created_at |-> 2] >>
    /\ sessions = (1 :> [user_id |-> 1]) @@ (2 :> [user_id |-> 2])
    /\ nextToken = 3
    /\ contacts \in Stores
    /\ nextContact = Cardinality(DOMAIN contacts) + 1
    /\ req = [r \in Reqs |-> Idle]
    /\ res = Idle
    /\ history = [early |-> FALSE, loggedOut |-> {}, mints |-> <<1, 1>>,
                  owner |-> <<"a@x.io", "b@x.io">>,
                  issued |-> {[email |-> "a@x.io", code |-> "100000", tid |-> 1,
                               expires |-> CodeTTL, redeemed |-> TRUE],
                              [email |-> "b@x.io", code |-> "999999", tid |-> 2,
                               expires |-> CodeTTL, redeemed |-> TRUE]}]

\* ------------------------------------------------------------ GET /api/contacts/:id
\* req.params.id: 0 stands for a string that is no UUID, which the store rejects
ContactIds == 0..MaxContacts

GetEnter(m) == [m EXCEPT !.pc = "select_contact"]

GetArrive(r, tok, id) ==
    /\ AuthRequired(r, [Fresh(r, "get") EXCEPT !.id = id], tok, GetEnter([Fresh(r, "get") EXCEPT !.id = id]))
    /\ UNCHANGED <<boot, schema, ownerEmail, now, users, magic_tokens, nextToken, contacts, nextContact>>

GetSelect(r) ==
    /\ proc = "running"
    /\ req[r].kind = "get" /\ req[r].pc = "select_contact"
    /\ Continue(r,
           IF schema < 2 \/ req[r].id = 0 THEN Respond(req[r], 500, "failed_get")
           ELSE IF ~Owned(req[r].id, req[r].user) THEN Respond(req[r], 404, "not_found")
           ELSE Respond(req[r], 200, ""))
    /\ UNCHANGED <<proc, boot, schema, ownerEmail, now, users, magic_tokens, sessions, nextToken, contacts, nextContact, history>>

\* ------------------------------------------------------------ POST /api/contacts
\* if (!name) 400 name_required; const id = randomUUID()
CreateEnter(m) ==
    IF ~Truthy(Bodies[m.body]["name"]) THEN Respond(m, 400, "name_required")
    ELSE [m EXCEPT !.pc = "insert_contact", !.id = nextContact]

CreateArrive(r, tok, b) ==
    /\ AuthRequired(r, [Fresh(r, "create") EXCEPT !.body = b], tok, CreateEnter([Fresh(r, "create") EXCEPT !.body = b]))
    /\ IF req'[r].pc = "insert_contact"
       THEN nextContact <= MaxContacts /\ nextContact' = nextContact + 1
       ELSE UNCHANGED nextContact
    /\ UNCHANGED <<boot, schema, ownerEmail, now, users, magic_tokens, nextToken, contacts>>

\* INSERT INTO contacts (...) VALUES (...) RETURNING *
CreateInsert(r) ==
    /\ proc = "running"
    /\ req[r].kind = "create" /\ req[r].pc = "insert_contact"
    /\ LET params == CreateParams(Bodies[req[r].body])
       IN IF schema < 2 \/ \E c \in Columns : Rejects(c, params[c])
          THEN /\ Continue(r, Respond(req[r], 500, "failed_create"))
               /\ UNCHANGED contacts
          ELSE /\ contacts' = (req[r].id :>
                      [user_id |-> req[r].user, updated_at |-> now,
                       col |-> [c \in Columns |-> Param(c, params[c])]]) @@ contacts
               /\ Continue(r, Respond(req[r], 201, ""))
    /\ UNCHANGED <<proc, boot, schema, ownerEmail, now, users, magic_tokens, sessions, nextToken, nextContact, history>>

\* ------------------------------------------------------------ PUT /api/contacts/:id
UpdateEnter(m) == [m EXCEPT !.pc = "update_contact"]

UpdateArrive(r, tok, id, b) ==
    /\ AuthRequired(r, [Fresh(r, "update") EXCEPT !.id = id, !.body = b], tok, UpdateEnter([Fresh(r, "update") EXCEPT !.id = id, !.body = b]))
    /\ UNCHANGED <<boot, schema, ownerEmail, now, users, magic_tokens, nextToken, contacts, nextContact>>

\* UPDATE contacts SET ... WHERE id = $1 AND user_id = $2 RETURNING *
UpdateExec(r) ==
    /\ proc = "running"
    /\ req[r].kind = "update" /\ req[r].pc = "update_contact"
    /\ LET params == UpdateParams(Bodies[req[r].body])
       IN IF schema < 2 \/ req[r].id = 0 \/ \E c \in Columns : Rejects(c, params[c])
          THEN /\ Continue(r, Respond(req[r], 500, "failed_update"))
               /\ UNCHANGED contacts
          ELSE IF ~Owned(req[r].id, req[r].user)
          THEN /\ Continue(r, Respond(req[r], 404, "not_found"))
               /\ UNCHANGED contacts
          ELSE /\ contacts' = [contacts EXCEPT ![req[r].id] = Merged(@, params, now)]
               /\ Continue(r, [Respond(req[r], 200, "") EXCEPT !.rowCount = 1])
    /\ UNCHANGED <<proc, boot, schema, ownerEmail, now, users, magic_tokens, sessions, nextToken, nextContact, history>>

\* ------------------------------------------------------------ DELETE /api/contacts/:id
DeleteEnter(m) == [m EXCEPT !.pc = "delete_contact"]

DeleteArrive(r, tok, id) ==
    /\ AuthRequired(r, [Fresh(r, "delete") EXCEPT !.id = id], tok, DeleteEnter([Fresh(r, "delete") EXCEPT !.id = id]))
    /\ UNCHANGED <<boot, schema, ownerEmail, now, users, magic_tokens, nextToken, contacts, nextContact>>

\* DELETE FROM contacts WHERE id = $1 AND user_id = $2
DeleteExec(r) ==
    /\ proc = "running"
    /\ req[r].kind = "delete" /\ req[r].pc = "delete_contact"
    /\ IF schema < 2 \/ req[r].id = 0
       THEN /\ Continue(r, Respond(req[r], 500, "failed_delete"))
            /\ UNCHANGED contacts
       ELSE IF ~Owned(req[r].id, req[r].user)
       THEN /\ Continue(r, Respond(req[r], 404, "not_found"))
            /\ UNCHANGED contacts
       ELSE /\ contacts' = [c \in DOMAIN contacts \ {req[r].id} |-> contacts[c]]
            /\ Continue(r, [Respond(req[r], 204, "") EXCEPT !.rowCount = 1])
    /\ UNCHANGED <<proc, boot, schema, ownerEmail, now, users, magic_tokens, sessions, nextToken, nextContact, history>>

\* ------------------------------------------------------------ GET /
Root(r) ==
    /\ proc = "running"
    /\ Free(r)
    /\ Arrive(r, Respond(Fresh(r, "root"), 200, ""))
    /\ history' = [history EXCEPT !.early = @ \/ boot # "ready"]
    /\ UNCHANGED <<proc, boot, schema, ownerEmail, now, users, magic_tokens, sessions, nextToken, contacts, nextContact>>

\* ------------------------------------------------------------ datastore failures
\* the error each route's catch answers with; GET /me has no try/catch
FailureOf ==
    [request |-> "request_failed", verify |-> "verify_failed", logout |-> "logout_failed",
     list |-> "failed_list", get |-> "failed_get", create |-> "failed_create",
     update |-> "failed_update", delete |-> "failed_delete", me |-> ""]

\* a rejection nobody catches, in authRequired or in GET /me
Uncaught(m, o) ==
    IF o = "error_500" THEN Respond([m EXCEPT !.fault = TRUE], 500, "")
    ELSE [m EXCEPT !.pc = "hung", !.fault = TRUE]

\* pool.query rejects (connection lost, timeout, ...) the statement the request in slot
\* r waits for: the route's catch answers 500, in GET /me nothing catches it
QueryFails(r) ==
    /\ proc = "running"
    /\ InFlight(r) /\ req[r].pc # "fetch"
    /\ IF req[r].kind = "me"
       THEN \E o \in Unhandled :
               /\ Continue(r, Uncaught(req[r], o))
               /\ proc' = IF o = "process_exit" THEN "exited" ELSE proc
       ELSE /\ Continue(r, Respond([req[r] EXCEPT !.fault = TRUE], 500, FailureOf[req[r].kind]))
            /\ UNCHANGED proc
    /\ UNCHANGED <<boot, schema, ownerEmail, now, users, magic_tokens, sessions, nextToken, contacts, nextContact, history>>

\* pool.query rejects the first statement of a request that has just arrived: the
\* upsert of requestCode, the SELECT of verifyCode (parameters present), or the session
\* lookup of authRequired (a bearer token present), which nothing catches
FirstQueryFails(r, kind) ==
    /\ proc = "running"
    /\ Free(r)
    /\ IF kind \in {"request", "verify"}
       THEN /\ Arrive(r, Respond([Fresh(r, kind) EXCEPT !.fault = TRUE], 500, FailureOf[kind]))
            /\ UNCHANGED proc
       ELSE \E o \in Unhandled :
               /\ Arrive(r, Uncaught(Fresh(r, kind), o))
               /\ proc' = IF o = "process_exit" THEN "exited" ELSE proc
    /\ history' = [history EXCEPT !.early = @ \/ boot # "ready"]
    /\ UNCHANGED <<boot, schema, ownerEmail, now, users, magic_tokens, sessions, nextToken, contacts, nextContact>>

\* ------------------------------------------------------------ specification
Next ==
    \/ Tick
    \/ BootFail
    \/ BootTables
    \/ BootColumn
    \/ BootOwner
    \/ BootBackfill
    \/ \E r \in Reqs, raw \in RawEmails : RequestArrive(r, raw)
    \/ \E r \in Reqs, key \in BOOLEAN : RequestInsert(r, key)
    \/ \E r \in Reqs, o \in {"ok", "not_ok", "throw"} : RequestFetch(r, o)
    \/ \E r \in Reqs, e \in RawEmails, c \in RawCodes : VerifyArrive(r, e, c)
    \/ \E r \in Reqs : VerifyConsume(r)
    \/ \E r \in Reqs : VerifyFindUser(r)
    \/ \E r \in Reqs : VerifyMint(r)
    \/ \E r \in Reqs, tok \in Bearers : LogoutArrive(r, tok)
    \/ \E r \in Reqs : LogoutDelete(r)
    \/ \E r \in Reqs, tok \in Bearers : MeArrive(r, tok)
    \/ \E r \in Reqs : MeSelect(r)
    \/ \E r \in Reqs, tok \in Bearers, q \in RawQueries : ListArrive(r, tok, q)
    \/ \E r \in Reqs : ListSelect(r)
    \/ \E r \in Reqs, tok \in Bearers, id \in ContactIds : GetArrive(r, tok, id)
    \/ \E r \in Reqs : GetSelect(r)
    \/ \E r \in Reqs, tok \in Bearers, b \in DOMAIN Bodies : CreateArrive(r, tok, b)
    \/ \E r \in Reqs : CreateInsert(r)
    \/ \E r \in Reqs, tok \in Bearers, id \in ContactIds, b \in DOMAIN Bodies : UpdateArrive(r, tok, id, b)
    \/ \E r \in Reqs : UpdateExec(r)
    \/ \E r \in Reqs, tok \in Bearers, id \in ContactIds : DeleteArrive(r, tok, id)
    \/ \E r \in Reqs : DeleteExec(r)
    \/ \E r \in Reqs : Root(r)
    \/ \E r \in Reqs : QueryFails(r)
    \/ \E r \in Reqs, kind \in DOMAIN FailureOf : FirstQueryFails(r, kind)

Spec == Init /\ [][Next]_vars

\* the process from its start: bootstrap() runs while app.listen() already serves
NextBoot ==
    \/ BootFail
    \/ BootTables
    \/ BootColumn
    \/ BootOwner
    \/ BootBackfill
    \/ \E r \in Reqs : Root(r)
    \/ \E r \in Reqs, raw \in RawEmails : RequestArrive(r, raw)
    \/ \E r \in Reqs, key \in BOOLEAN : RequestInsert(r, key)
    \/ \E r \in Reqs, o \in {"ok", "not_ok", "throw"} : RequestFetch(r, o)
    \/ \E r \in Reqs, tok \in Bearers : MeArrive(r, tok)

SpecBoot == Init /\ [][NextBoot]_vars

\* code issuance and verification once bootstrap() has completed
NextLogin ==
    \/ Tick
    \/ \E r \in Reqs, raw \in RawEmails : RequestArrive(r, raw)
    \/ \E r \in Reqs, key \in BOOLEAN : RequestInsert(r, key)
    \/ \E r \in Reqs, o \in {"ok", "not_ok", "throw"} : RequestFetch(r, o)
    \/ \E r \in Reqs, e \in RawEmails, c \in RawCodes : VerifyArrive(r, e, c)
    \/ \E r \in Reqs : VerifyConsume(r)
    \/ \E r \in Reqs : VerifyFindUser(r)
    \/ \E r \in Reqs : VerifyMint(r)

SpecLogin == InitReady /\ [][NextLogin]_vars


\* no request is in flight
Quiet == \A q \in Reqs : ~InFlight(q)

\* The contact routes with both users logged in.  No session is created or deleted here,
\* so authRequired only reads, every handler runs one statement, and the runs of
\* overlapping requests are the runs of these statements in some order: requests are
\* taken one after the other.
NextContacts ==
    \/ Tick
    \/ \E r \in Reqs, tok \in Bearers, q \in RawQueries : Quiet /\ ListArrive(r, tok, q)
    \/ \E r \in Reqs : ListSelect(r)
    \/ \E r \in Reqs, tok \in Bearers, id \in ContactIds : Quiet /\ GetArrive(r, tok, id)
    \/ \E r \in Reqs : GetSelect(r)
    \/ \E r \in Reqs, tok \in Bearers, b \in DOMAIN Bodies : Quiet /\ CreateArrive(r, tok, b)
    \/ \E r \in Reqs : CreateInsert(r)
    \/ \E r \in Reqs, tok \in Bearers, id \in ContactIds, b \in DOMAIN Bodies :
          Quiet /\ UpdateArrive(r, tok, id, b)
    \/ \E r \in Reqs : UpdateExec(r)
    \/ \E r \in Reqs, tok \in Bearers, id \in ContactIds : Quiet /\ DeleteArrive(r, tok, id)
    \/ \E r \in Reqs : DeleteExec(r)

SpecContacts == LoggedIn /\ [][NextContacts]_vars

\* The session lifecycle with both users logged in: logout, GET /me and the contact
\* routes, overlapping freely; clients send one body and address one contact.
NextSessions ==
    \/ \E r \in Reqs, tok \in Bearers : LogoutArrive(r, tok)
    \/ \E r \in Reqs : LogoutDelete(r)
    \/ \E r \in Reqs, tok \in Bearers : MeArrive(r, tok)
    \/ \E r \in Reqs : MeSelect(r)
    \/ \E r \in Reqs, tok \in Bearers : ListArrive(r, tok, "")
    \/ \E r \in Reqs : ListSelect(r)
    \/ \E r \in Reqs, tok \in Bearers : GetArrive(r, tok, 1)
    \/ \E r \in Reqs : GetSelect(r)
    \/ \E r \in Reqs, tok \in Bearers : CreateArrive(r, tok, 2)
    \/ \E r \in Reqs : CreateInsert(r)
    \/ \E r \in Reqs, tok \in Bearers : UpdateArrive(r, tok, 1, 3)
    \/ \E r \in Reqs : UpdateExec(r)
    \/ \E r \in Reqs, tok \in Bearers : DeleteArrive(r, tok, 1)
    \/ \E r \in Reqs : DeleteExec(r)

SpecSessions == LoggedIn /\ [][NextSessions]_vars


\* code issuance and verification, one request after the other
NextCodes ==
    \/ Tick
    \/ \E r \in Reqs, raw \in RawEmails : Quiet /\ RequestArrive(r, raw)
    \/ \E r \in Reqs, key \in BOOLEAN : RequestInsert(r, key)
    \/ \E r \in Reqs, o \in {"ok", "not_ok", "throw"} : RequestFetch(r, o)
    \/ \E r \in Reqs, e \in RawEmails, c \in RawCodes : Quiet /\ VerifyArrive(r, e, c)
    \/ \E r \in Reqs : VerifyConsume(r)
    \/ \E r \in Reqs : VerifyFindUser(r)
    \/ \E r \in Reqs : VerifyMint(r)

SpecCodes == InitReady /\ [][NextCodes]_vars

\* Requests taken one after the other; no mail service is configured, and clients send
\* well-formed emails out of raws, codes that may have been issued, one body, and address
\* one contact.  The login routes:
LoginsOf(raws) ==
    \/ \E r \in Reqs, raw \in raws : Quiet /\ RequestArrive(r, raw)
    \/ \E r \in Reqs : RequestInsert(r, FALSE)
    \/ \E r \in Reqs, e \in raws, c \in {" 100000", "999999"} : Quiet /\ VerifyArrive(r, e, c)
    \/ \E r \in Reqs : VerifyConsume(r)
    \/ \E r \in Reqs : VerifyFindUser(r)
    \/ \E r \in Reqs : VerifyMint(r)

\* logout and GET /me
Resolves ==
    \/ \E r \in Reqs, tok \in Bearers : Quiet /\ LogoutArrive(r, tok)
    \/ \E r \in Reqs : LogoutDelete(r)
    \/ \E r \in Reqs, tok \in Bearers : Quiet /\ MeArrive(r, tok)
    \/ \E r \in Reqs : MeSelect(r)

\* the contact routes
Contacts ==
    \/ \E r \in Reqs, tok \in Bearers : Quiet /\ ListArrive(r, tok, "")
    \/ \E r \in Reqs : ListSelect(r)
    \/ \E r \in Reqs, tok \in Bearers : Quiet /\ GetArrive(r, tok, 1)
    \/ \E r \in Reqs : GetSelect(r)
    \/ \E r \in Reqs, tok \in Bearers : Quiet /\ CreateArrive(r, tok, 2)
    \/ \E r \in Reqs : CreateInsert(r)
    \/ \E r \in Reqs, tok \in Bearers : Quiet /\ UpdateArrive(r, tok, 1, 3)
    \/ \E r \in Reqs : UpdateExec(r)
    \/ \E r \in Reqs, tok \in Bearers : Quiet /\ DeleteArrive(r, tok, 1)
    \/ \E r \in Reqs : DeleteExec(r)

\* two users log in and out and resolve their sessions while the clock runs
NextBinding == Tick \/ LoginsOf({" A@X.io ", "b@x.io"}) \/ Resolves

SpecBinding == InitReady /\ [][NextBinding]_vars

\* the life of the sessions of one user: every route, with the clock running
NextLife == Tick \/ LoginsOf({"b@x.io"}) \/ Resolves \/ Contacts

SpecLife == InitReady /\ [][NextLife]_vars

\* every route, used by one user, over a store that may reject any statement
NextFaults ==
    \/ LoginsOf({"b@x.io"})
    \/ Resolves
    \/ Contacts
    \/ \E r \in Reqs : QueryFails(r)
    \/ \E r \in Reqs, kind \in DOMAIN FailureOf : Quiet /\ FirstQueryFails(r, kind)

SpecFaults == InitReady /\ [][NextFaults]_vars

\* GET /api/contacts over stored contacts, requests overlapping freely
NextList ==
    \/ \E r \in Reqs, tok \in Bearers, q \in RawQueries : ListArrive(r, tok, q)
    \/ \E r \in Reqs : ListSelect(r)

SpecList == Stocked /\ [][NextList]_vars


\* ------------------------------------------------------------ login codes
\* C1: when requests do not overlap, a verifyCode for the code requestCode issued last for
\* the email, presented before its expiry, succeeds and returns the token of a session
\* bound to that email's user; a verifyCode presenting a code that has already been
\* redeemed fails as code_used and mints no session.
C1_VerifyExactlyOnce ==
    (res.kind = "verify" /\ res.pc = "done" /\ res.solo) =>
        /\ res.fresh =>
              /\ res.status = 200
              /\ res.token # 0 /\ res.token = res.minted
              /\ res.token \in DOMAIN sessions
              /\ users[sessions[res.token].user_id] = res.email
        /\ res.late =>
              /\ res.status = 400 /\ res.error = "code_used"
              /\ res.minted = 0

\* a code was redeemed, and a second verifyCode for it has failed as code_used
C1_Witness ==
    /\ res.kind = "verify" /\ res.solo /\ res.late /\ res.error = "code_used"
    /\ \E t \in DOMAIN sessions : history.owner[t] = "a@x.io"

\* C2: a login code is single-use under every interleaving of verifyCode requests: at
\* most one session is ever minted for a row of magic_tokens.
C2_SingleUse == \A i \in DOMAIN history.mints : history.mints[i] <= 1

\* C4: a verifyCode evaluated strictly after the expires_at of the row it matches answers
\* 400, mints no session and leaves the row as it is, consumed or not.
C4_ExpiredRejected ==
    /\ \A r \in Reqs : req[r].kind = "verify" => ~req[r].stale
    /\ (res.kind = "verify" /\ res.stale) =>
          /\ res.status = 400
          /\ res.error \in {"code_used", "code_expired"}
          /\ ~res.marked /\ res.minted = 0

\* expired codes were refused, one that was never consumed and one that was
C4_Witness ==
    /\ res.kind = "verify" /\ res.stale /\ res.error = "code_expired"
    /\ \E i \in DOMAIN magic_tokens :
          magic_tokens[i].used_at = Null /\ magic_tokens[i].expires_at < now
    /\ \E i \in DOMAIN magic_tokens :
          magic_tokens[i].used_at # Null /\ magic_tokens[i].expires_at < now

\* C7: whenever the delivery channel is absent or fails, requestCode answers 200 with
\* delivery "console", the code having been stored and written to the log.
C7_DeliveryNeverFails ==
    (res.kind = "request" /\ res.pc = "done" /\ res.fetch \in {"no_key", "not_ok", "throw"}) =>
        /\ res.status = 200
        /\ res.delivery = "console"
        /\ res.channel = "console"

\* ------------------------------------------------------------ bootstrap
\* C8: in a run in which bootstrap fails, the process has handled no request.
C8_NoServingWithoutSchema == boot = "failed" => ~history.early


\* ------------------------------------------------------------ sessions
AuthKinds == {"logout", "me", "list", "get", "create", "update", "delete"}

\* C5: once a logout with token S has completed, every later request presenting S (GET
\* /me, a contact route, logout) is answered 401 unauthorized and S has no session row;
\* a request S authenticates runs as the user whose code verification minted S.
C5_LoggedOutRejected ==
    /\ \A t \in history.loggedOut : t \notin DOMAIN sessions
    /\ \A r \in Reqs : (InFlight(r) /\ req[r].kind \in AuthKinds) =>
          /\ ~req[r].late
          /\ users[req[r].user] = history.owner[req[r].token]
    /\ (res.kind \in AuthKinds /\ res.late) =>
          (res.pc = "done" /\ res.status = 401 /\ res.error = "unauthorized")

\* GET /me with a token whose logout had completed was answered 401
C5_Witness ==
    /\ res.kind = "me" /\ res.late /\ res.status = 401
    /\ 1 \in history.loggedOut /\ 2 \in DOMAIN sessions

\* C6 as claimed: a logout with a token that has no session row, such as a second logout
\* with the same token, is not an error.
C6_LogoutNeverAnError == (res.kind = "logout" /\ res.late) => res.status = 200

\* C6: logout deletes the session row of the token it was authenticated with and no
\* other; its DELETE is unconditional, so it answers 200 and changes nothing when the
\* row is already gone; a logout whose token has no session row when authRequired looks
\* it up is answered 401 and changes nothing.
C6_LogoutIdempotent ==
    [][\A r \in Reqs :
        /\ LogoutDelete(r) =>
              /\ res'.kind = "logout" /\ res'.status = 200 /\ res'.error = ""
              /\ DOMAIN sessions' = DOMAIN sessions \ {req[r].token}
              /\ \A t \in DOMAIN sessions' : sessions'[t] = sessions[t]
              /\ (req[r].token \notin DOMAIN sessions => sessions' = sessions)
              /\ <<users, magic_tokens, contacts>>' = <<users, magic_tokens, contacts>>
        /\ \A tok \in Bearers :
              (LogoutArrive(r, tok) /\ tok \notin DOMAIN sessions) =>
                  /\ res'.kind = "logout" /\ res'.status = 401
                  /\ <<users, magic_tokens, sessions, contacts>>' = <<users, magic_tokens, sessions, contacts>>]_vars

\* a logout found its session row already deleted and answered 200
C6_Witness == res.kind = "logout" /\ res.status = 200 /\ res.rowCount = 0

\* ------------------------------------------------------------ contacts
\* the request in slot r addresses a contact of another user
Foreign(r) == req[r].id \in DOMAIN contacts /\ contacts[req[r].id].user_id # req[r].user

\* C3 as claimed: get, update and delete of another user's contact answer 404, never
\* anything else, and leave the contact unchanged.
C3_AlwaysNotFound ==
    [][\A r \in Reqs :
        ((GetSelect(r) \/ UpdateExec(r) \/ DeleteExec(r)) /\ Foreign(r)) =>
            /\ res'.status = 404 /\ res'.error = "not_found"
            /\ contacts' = contacts]_vars

\* the body carries, for lat or lng, text that spells no number
Malformed(b) == \E c \in {"lat", "lng"} : b[c].k = "string" /\ b[c].s \notin {"5", "7"}

\* C3: get and delete of another user's contact answer 404 not_found; so does update,
\* unless the body carries a value the store rejects for its column, which is answered
\* 500 failed_update; in every case the contact is left unchanged.
C3_CrossUserDenied ==
    [][\A r \in Reqs :
        /\ ((GetSelect(r) \/ DeleteExec(r)) /\ Foreign(r)) =>
              /\ res'.status = 404 /\ res'.error = "not_found"
              /\ contacts' = contacts
        /\ (UpdateExec(r) /\ Foreign(r)) =>
              /\ IF Malformed(Bodies[req[r].body])
                 THEN res'.status = 500 /\ res'.error = "failed_update"
                 ELSE res'.status = 404 /\ res'.error = "not_found"
              /\ contacts' = contacts]_vars

\* an update of the one contact there is was answered 404: its owner was not the caller
C3_Witness ==
    /\ res.kind = "update" /\ res.status = 404
    /\ DOMAIN contacts = {1} /\ nextContact = 2

\* the value a column holds once the value v was written to it
Written(c, v) ==
    CASE v.k = "null" -> JsNull
      [] c \in TextColumns /\ v.k = "number" -> Str(NumberToString(v.n))
      [] c \in NumberColumns /\ v.k = "string" -> Number(v)
      [] OTHER -> v

\* C9: a successful update overwrites every field the body provides with the value
\* provided, keeps every field it omits, and refreshes updated_at.
C9_ProvidedOverwritten ==
    [][\A r \in Reqs :
        (UpdateExec(r) /\ res'.status = 200) =>
            LET b == Bodies[req[r].body]
                old == contacts[req[r].id]
                new == contacts'[req[r].id]
            IN /\ \A c \in Columns :
                    new.col[c] = IF b[c].k = "undefined" THEN old.col[c] ELSE Written(c, b[c])
               /\ new.updated_at = now
               /\ new.user_id = old.user_id]_vars

\* C10: every stored contact has a non-empty name.
C10_NameNonEmpty ==
    \A c \in DOMAIN contacts :
        contacts[c].col["name"].k = "string" /\ contacts[c].col["name"].s # ""


\* ------------------------------------------------------------ list
\* the contacts of user u
Mine(u) == {c \in DOMAIN contacts : contacts[c].user_id = u}

Range(f) == {f[i] : i \in DOMAIN f}

\* rows names each contact once at most, the most recently updated first
Descending(rows) ==
    /\ \A i, j \in DOMAIN rows : i # j => rows[i] # rows[j]
    /\ \A i, j \in DOMAIN rows :
          i < j => contacts[rows[i]].updated_at >= contacts[rows[j]].updated_at

\* the list request in slot r, sent without query, is answered with its rows
ListedAll(r) ==
    /\ req[r].kind = "list" /\ req[r].pc = "select_contacts" /\ req[r].q = ""
    /\ ListSelect(r)
    /\ res'.status = 200

\* C11 as claimed: list with no query returns all of the caller's contacts, whatever
\* their number, the most recently updated first.
C11_ListReturnsAll ==
    [][\A r \in Reqs :
        ListedAll(r) =>
            /\ Range(res'.rows) = Mine(req[r].user)
            /\ Descending(res'.rows)]_vars

\* C11: list with no query returns the caller's contacts, the most recently updated
\* first: all of them when there are 200 at most, otherwise 200 of them, none of the
\* omitted ones updated after a returned one.
C11_ListReturnsLatest ==
    [][\A r \in Reqs :
        ListedAll(r) =>
            LET rows == res'.rows
                mine == Mine(req[r].user)
            IN /\ Range(rows) \subseteq mine
               /\ Descending(rows)
               /\ Len(rows) = IF Cardinality(mine) <= ListLimit
                               THEN Cardinality(mine) ELSE ListLimit
               /\ \A c \in mine \ Range(rows) : \A i \in DOMAIN rows :
                      contacts[rows[i]].updated_at >= contacts[c].updated_at]_vars

\* a list without query was answered with 200 rows for a user who has more
C11_Witness ==
    /\ res.kind = "list" /\ res.status = 200
    /\ Len(res.rows) = ListLimit
    /\ Cardinality(Mine(1)) > ListLimit

\* the contacts table with the rows of every user but u removed
OnlyOf(tbl, u) == [c \in {d \in DOMAIN tbl : tbl[d].user_id = u} |-> tbl[c]]

\* C19: list is non-interfering across users: what list answers user A, with or
\* without a query, names contacts of A only and is what it would answer on the store
\* that holds nothing but A's contacts.
C19_ListNonInterference ==
    [][\A r \in Reqs :
        (/\ req[r].kind = "list" /\ req[r].pc = "select_contacts"
         /\ ListSelect(r)
         /\ res'.status = 200) =>
            /\ Range(res'.rows) \subseteq Mine(req[r].user)
            /\ res'.rows \in ListRows(OnlyOf(contacts, req[r].user), req[r].user, req[r].q)
            /\ ListRows(contacts, req[r].user, req[r].q)
                  = ListRows(OnlyOf(contacts, req[r].user), req[r].user, req[r].q)]_vars

\* a list with a query was answered with the caller's matching contacts while another
\* user has a contact that matches the query as well
C19_Witness ==
    /\ res.kind = "list" /\ res.status = 200 /\ res.rows # <<>>
    /\ contacts = Few
    /\ Range(res.rows) = {3}


\* ------------------------------------------------------------ requestCode
\* the email is empty once trimmed, or has no "@"
MalformedEmail(raw) == raw \in {" ", "nobody"}

\* C12: requestCode with a malformed email answers 400 invalid_email at once: no row of
\* users, magic_tokens or sessions is written and no delivery is attempted.
C12_InvalidEmailRejected ==
    [][\A r \in Reqs, raw \in RawEmails :
        (RequestArrive(r, raw) /\ MalformedEmail(raw)) =>
            /\ res'.kind = "request" /\ res'.status = 400 /\ res'.error = "invalid_email"
            /\ res'.fetch = "" /\ res'.delivery = "" /\ res'.channel = ""
            /\ ~InFlight(r)'
            /\ <<users, magic_tokens, sessions>>' = <<users, magic_tokens, sessions>>]_vars

\* a malformed email was refused after codes had been issued to a user
C12_Witness ==
    /\ res.kind = "request" /\ res.status = 400 /\ res.error = "invalid_email"
    /\ users # <<>> /\ magic_tokens # <<>>


\* C16: the user upsert is idempotent: under every interleaving of requestCode calls
\* (and of bootstrap's owner upsert) there is one users row per normalized email at
\* most, a row keeps its id and its email for ever, and no row is ever deleted.
C16_UpsertIdempotent ==
    [][/\ \A i, j \in DOMAIN users' : i # j => users'[i] # users'[j]
       /\ \A i \in DOMAIN users' : users'[i] = ToLowerCase(Trim(users'[i])) /\ users'[i] # ""
       /\ Len(users') >= Len(users)
       /\ \A i \in DOMAIN users : users'[i] = users[i]]_vars

\* two codes were issued for the email of the one user there is
C16_Witness ==
    /\ Len(users) = 1
    /\ Len(magic_tokens) = 2
    /\ \A i \in DOMAIN magic_tokens : magic_tokens[i].email = users[1]


\* ------------------------------------------------------------ verifyCode
\* the rows of magic_tokens with this email and code, and the one created last
Matching(email, code) ==
    {i \in DOMAIN magic_tokens :
        magic_tokens[i].email = email /\ magic_tokens[i].code = code}

Newest(email, code) ==
    CHOOSE i \in Matching(email, code) :
        \A j \in Matching(email, code) : magic_tokens[j].created_at <= magic_tokens[i].created_at

\* why verifyCode is to refuse (email, code) now, "none" when it is not
Reason(email, code) ==
    IF Matching(email, code) = {} THEN "invalid_code"
    ELSE IF magic_tokens[Newest(email, code)].used_at # Null THEN "code_used"
    ELSE IF magic_tokens[Newest(email, code)].expires_at < now THEN "code_expired"
    ELSE "none"

\* C14: verifyCode's rejection is decided by the row created last among those matching
\* (email, code): none gives invalid_code; consumed gives code_used, past expiry or not;
\* unconsumed and past expiry gives code_expired; a rejection creates no session and
\* modifies no row of magic_tokens.
C14_RejectionReason ==
    [][\A r \in Reqs, e \in RawEmails, c \in RawCodes :
        (VerifyArrive(r, e, c) /\ ToLowerCase(Trim(e)) # "" /\ Trim(c) # "") =>
            LET why == Reason(ToLowerCase(Trim(e)), Trim(c))
            IN IF why = "none"
               THEN InFlight(r)' /\ req'[r].pc = "consume"
               ELSE /\ res'.kind = "verify" /\ res'.status = 400 /\ res'.error = why
                    /\ ~InFlight(r)'
                    /\ sessions' = sessions
                    /\ magic_tokens' = magic_tokens]_vars

\* a code that was consumed and is past its expiry was refused as code_used
C14_Witness ==
    /\ res.kind = "verify" /\ res.status = 400 /\ res.error = "code_used" /\ res.stale
    /\ \E i \in DOMAIN magic_tokens :
          magic_tokens[i].used_at # Null /\ magic_tokens[i].expires_at < now

\* C15: codes of one email coexist: issuing a code leaves the rows there are as they
\* are; a verifyCode whose newest matching row is unconsumed and unexpired is accepted
\* on that row, consumes that row only and mints a session; when the newest matching
\* row is consumed the code is refused, older rows with the same code notwithstanding.
C15_CodesCoexist ==
    [][\A r \in Reqs :
        /\ \A key \in BOOLEAN :
              RequestInsert(r, key) =>
                  /\ Len(magic_tokens') = Len(magic_tokens) + 1
                  /\ \A i \in DOMAIN magic_tokens : magic_tokens'[i] = magic_tokens[i]
        /\ \A e \in RawEmails, c \in RawCodes :
              (VerifyArrive(r, e, c) /\ Matching(ToLowerCase(Trim(e)), Trim(c)) # {}) =>
                  LET n == Newest(ToLowerCase(Trim(e)), Trim(c))
                  IN IF magic_tokens[n].used_at = Null /\ now <= magic_tokens[n].expires_at
                     THEN InFlight(r)' /\ req'[r].tid = n
                     ELSE ~InFlight(r)' /\ res'.status = 400
        /\ VerifyConsume(r) =>
              \A i \in DOMAIN magic_tokens :
                  IF i = req[r].tid
                  THEN magic_tokens'[i] = [magic_tokens[i] EXCEPT !.used_at = now]
                  ELSE magic_tokens'[i] = magic_tokens[i]
        /\ VerifyMint(r) =>
              /\ res'.status = 200 /\ res'.token \in DOMAIN sessions' \ DOMAIN sessions
              /\ users[sessions'[res'.token].user_id] = magic_tokens[req[r].tid].email]_vars

\* of two codes of one email the older was redeemed after the newer was issued
C15_Witness ==
    \E i, j \in DOMAIN magic_tokens :
        /\ i < j
        /\ magic_tokens[i].email = magic_tokens[j].email
        /\ magic_tokens[i].code # magic_tokens[j].code
        /\ magic_tokens[i].used_at # Null
        /\ magic_tokens[i].used_at > magic_tokens[j].expires_at - CodeTTL
        /\ history.mints[i] = 1

\* C13: on every endpoint a request whose datastore statement fails is answered with
\* status 500, the session lookup of authRequired and the user lookup of GET /me
\* included; no such request is left without a response, and the process keeps running
C13_StoreFailureAnswered500 ==
    /\ proc = "running"
    /\ res.fault => res.pc = "done" /\ res.status = 500

\* C20: POST /auth/verify is all-or-nothing under a datastore failure in the middle of
\* its statements: a code row is marked used only if a session was minted for it (or
\* the request marking it is still running)
C20_VerifyAllOrNothing ==
    \A i \in DOMAIN magic_tokens :
        magic_tokens[i].used_at # Null =>
            \/ history.mints[i] >= 1
            \/ \E r \in Reqs : InFlight(r) /\ req[r].kind = "verify" /\ req[r].tid = i

\* the user a session row is bound to exists and is the one whose email the verify
\* request that minted the token gave
Bound(t) ==
    /\ sessions[t].user_id \in 1..Len(users)
    /\ t \in DOMAIN history.owner
    /\ users[sessions[t].user_id] = history.owner[t]
    /\ \A i \in 1..Len(users) : users[i] = history.owner[t] => i = sessions[t].user_id

\* what authRequired resolved for a request in flight is the user the token is bound to
Resolved(m) ==
    /\ m.token \in DOMAIN history.owner
    /\ m.user \in 1..Len(users)
    /\ users[m.user] = history.owner[m.token]
    /\ m.token \in DOMAIN sessions => m.user = sessions[m.token].user_id

\* C17: in every reachable state each session row is bound to exactly one existing
\* user, the one whose email the successful verify that minted the token gave;
\* authRequired resolves a token to that user id and to no other; and the binding of a
\* session never changes while the session exists
C17_SessionBinding ==
    /\ [](/\ \A t \in DOMAIN sessions : Bound(t)
          /\ \A r \in Reqs : InFlight(r) /\ req[r].kind \in AuthKinds => Resolved(req[r])
          /\ res.kind = "me" /\ res.status = 200 => res.user # 0 /\ users[res.user] = res.email)
    /\ [][\A t \in DOMAIN sessions \cap DOMAIN sessions' : sessions'[t] = sessions[t]]_vars

\* two users hold sessions and GET /me of the first user's token has been resolved
C17_Witness ==
    /\ \E t, u \in DOMAIN sessions : sessions[t].user_id # sessions[u].user_id
    /\ \E r \in Reqs :
          /\ req[r].kind = "me" /\ req[r].pc = "select_user"
          /\ req[r].token \in DOMAIN sessions
          /\ req[r].user = 1 /\ Len(users) = 2

\* C18: sessions are created only by a successful verify and removed only by a logout
\* presenting that same token: the set of session tokens changes only when a verify
\* request inserts its new token and answers 200, or when a logout request deletes the
\* token it presented; every other step (requestCode, a rejected verify, authRequired,
\* GET /me, the contact routes, a logout of another token) leaves the set unchanged, and
\* so does the passage of time
C18_SessionSetFrame ==
    [][/\ now' # now => sessions' = sessions
       /\ \/ DOMAIN sessions' = DOMAIN sessions
          \/ \E r \in Reqs :
                /\ req[r].kind = "verify" /\ req[r].pc = "mint"
                /\ req[r].token \notin DOMAIN sessions
                /\ DOMAIN sessions' = DOMAIN sessions \cup {req[r].token}
                /\ res'.kind = "verify" /\ res'.status = 200 /\ res'.minted = req[r].token
          \/ \E r \in Reqs :
                /\ req[r].kind = "logout" /\ req[r].pc = "delete_session"
                /\ DOMAIN sessions' = DOMAIN sessions \ {req[r].token}
                /\ res'.kind = "logout" /\ res'.status = 200]_vars

\* at the end of the clock a session minted at time 0 still resolves for a contact
\* route, after a logout has run
C18_Witness ==
    /\ now = MaxTime
    /\ history.loggedOut # {}
    /\ \E i \in DOMAIN magic_tokens : magic_tokens[i].used_at = 0 /\ history.mints[i] = 1
    /\ \E r \in Reqs :
          /\ req[r].kind \in {"list", "get", "create", "update", "delete"} /\ InFlight(r)
          /\ req[r].token \in DOMAIN sessions \ history.loggedOut

====
